---- MODULE Spec2Model ----
(***************************************************************************)
(* A model of gitlog_summary/cli.py: the per-day commit cache, the        *)
(* commit collector, the diff retriever, the prompt builder with its       *)
(* token budget, the two-level summarization performed by main, and two    *)
(* concurrent invocations writing the cache file.                          *)
(*                                                                         *)
(* Python values are kept with their Python type (list, tuple, None) and   *)
(* the cache file with its JSON type (array, object), so that json.dump    *)
(* and json.load are conversions, not the identity.  Long texts (diffs,    *)
(* prompts, model responses) are kept as a kind and a length, the only     *)
(* thing estimate_token_count reads; commit strings are real strings.      *)
(***************************************************************************)
EXTENDS Integers, Sequences, FiniteSets, TLC

VARIABLES
    file,        \* the cache file .gh_commit_cache.json
    now,         \* time.time(), in whole seconds
    ticks,       \* number of clock advances so far (bounded)
    ret,         \* the last cache call and what it returned
    saved,       \* per date: the most recent completed save_cache
    pc,          \* main: the position of the run
    args,        \* main: the command line (date, github_token, ai_summary)
    hub,         \* the hosting service: each repository's commits
    gh_commits,  \* main: the commit groups in use
    fetched,     \* get_github_commits: what happened per repository
    ri,          \* main: index of the repository being summarized
    ci,          \* main: index of the commit being summarized
    commit_diffs,          \* main: result of get_commit_diffs
    diff_outcomes,         \* what each repo.get_commit call did
    repo_ok,     \* whether g.get_repo returned for the current repository
    per_commit_summaries,  \* main: (commit, summary) pairs of this repository
    out,         \* everything printed, in order
    ai_call,     \* the last get_ai_summary call: prompt, service state, result
    w            \* two concurrent invocations inside save_cache

vars == <<file, now, ticks, ret, saved, pc, args, hub, gh_commits, fetched,
          ri, ci, commit_diffs, diff_outcomes, repo_ok, per_commit_summaries,
          out, ai_call, w>>

cacheVars == <<file, now, ticks, ret, saved>>
runVars == <<pc, args, hub, gh_commits, fetched, ri, ci, commit_diffs,
             diff_outcomes, repo_ok, per_commit_summaries, out, ai_call>>

----------------------------------------------------------------------------
(* Program constants *)

CACHE_TTL == 900

AI_SUMMARY_LIMIT == 12000

SHORT_SHA == 7

----------------------------------------------------------------------------
(* Bounds of the model *)

MaxTicks == 3

----------------------------------------------------------------------------
(* Python and JSON values *)

Min(a, b) == IF a < b THEN a ELSE b

None == [py |-> "None", items |-> <<>>]

PyList(items) == [py |-> "list", items |-> items]

PyTuple(items) == [py |-> "tuple", items |-> items]

JsArray(items) == [js |-> "array", items |-> items]

\* The (repository, commits) view of a group, as `for repo, commits in ...`
\* unpacks it: a tuple and a two-element list unpack alike.
Unpack(g) == [name |-> g.items[1], commits |-> g.items[2].items]

GroupsOf(p) == [k \in 1..Len(p.items) |-> Unpack(p.items[k])]

\* json.dump of a commit payload: lists and tuples both become arrays.
json_dump_group(g) == JsArray(<<g.items[1], JsArray(g.items[2].items)>>)

json_dump(p) == JsArray([k \in 1..Len(p.items) |-> json_dump_group(p.items[k])])

\* json.load of a commit payload: every array becomes a list.
json_load_group(a) == PyList(<<a.items[1], PyList(a.items[2].items)>>)

json_load(a) == PyList([k \in 1..Len(a.items) |-> json_load_group(a.items[k])])

----------------------------------------------------------------------------
(* The cache file.  st is "absent" (no file), "malformed" (not JSON),      *)
(* "nondict" (JSON, but not an object) or "object"; data maps the date     *)
(* keys present to their entries.  An entry written by save_cache has      *)
(* shape "entry"; shape "other" is any truthy JSON value of another shape. *)

Dates == {"2024-05-01", "2024-05-02"}

NoData == [d \in {} |-> 0]

Absent == [st |-> "absent", data |-> NoData]

Malformed == [st |-> "malformed", data |-> NoData]

NonDict == [st |-> "nondict", data |-> NoData]

Entry(ts, commits) == [shape |-> "entry", timestamp |-> ts, commits |-> commits]

OtherEntry == [shape |-> "other", timestamp |-> 0, commits |-> JsArray(<<>>)]

cache_key(date) == date

\* load_cache with < weakened to <=
load_cache_le(f, date, t) ==
    IF f.st # "object" THEN None
    ELSE IF cache_key(date) \notin DOMAIN f.data THEN None
    ELSE LET entry == f.data[cache_key(date)] IN
         IF entry.shape = "entry" /\ t - entry.timestamp <= CACHE_TTL
         THEN json_load(entry.commits)
         ELSE None

\* load_cache testing the commits for truth instead of the entry
load_cache_truthy(f, date, t) ==
    IF f.st # "object" THEN None
    ELSE IF cache_key(date) \notin DOMAIN f.data THEN None
    ELSE LET entry == f.data[cache_key(date)] IN
         IF entry.shape = "entry" /\ Len(entry.commits.items) > 0
            /\ t - entry.timestamp < CACHE_TTL
         THEN json_load(entry.commits)
         ELSE None

\* load_cache(date) at time t: a missing, unreadable or non-object file, a
\* missing key and an entry of another shape all end in `return None`.
load_cache(f, date, t) ==
    IF f.st # "object" THEN None
    ELSE IF cache_key(date) \notin DOMAIN f.data THEN None
    ELSE LET entry == f.data[cache_key(date)] IN
         IF entry.shape = "entry" /\ t - entry.timestamp < CACHE_TTL
         THEN json_load(entry.commits)
         ELSE None

\* The mapping save_cache starts from: {} unless the file parses.
save_cache_read(f) == IF f.st \in {"object", "nondict"} THEN f ELSE [st |-> "object", data |-> NoData]

\* data[key] = ... raises TypeError when the parsed JSON is not an object;
\* the exception is not caught and the file is left as it was.
save_cache_raises(f) == save_cache_read(f).st = "nondict"

\* save_cache forgetting line 93: the mapping is written back as it was read
save_cache_data_unset(data, date, t, commits) == data

\* data[key] = {"timestamp": time.time(), "commits": commits}
save_cache_data(data, date, t, commits) ==
    [d \in DOMAIN data \cup {cache_key(date)} |->
        IF d = cache_key(date) THEN Entry(t, json_dump(commits)) ELSE data[d]]

\* The file after save_cache(date, commits) at time t.
save_cache(f, date, t, commits) ==
    IF save_cache_raises(f) THEN f
    ELSE [st |-> "object", data |-> save_cache_data(save_cache_read(f).data, date, t, commits)]

----------------------------------------------------------------------------
(* Commit payloads as get_github_commits builds them: a list of            *)
(* (full_name, [formatted commit, ...]) tuples.                            *)

GroupA == PyTuple(<<"u/alpha", PyList(<<"abc1234 Fix bug", "def5678 Add feature">>)>>)

GroupB == PyTuple(<<"u/beta", PyList(<<"0a1b2c3 Update docs">>)>>)

Payloads == {PyList(<<>>), PyList(<<GroupA>>), PyList(<<GroupB, GroupA>>)}

NeverSaved == [done |-> FALSE, at |-> 0, commits |-> None]

NoCall == [op |-> "none", date |-> "", val |-> None, raised |-> FALSE, at |-> 0]

\* Files an earlier invocation, or anything else, may have left behind.
InitFiles ==
    {Absent, Malformed, NonDict,
     [st |-> "object", data |-> [d \in {"2024-05-01"} |-> OtherEntry]],
     [st |-> "object", data |-> [d \in {"2024-05-02"} |-> Entry(0, json_dump(PyList(<<GroupB>>)))]]}

----------------------------------------------------------------------------
(* The hosting service.  A repository is its full name and the commits    *)
(* that match the author and the day; a commit is its sha and the lines of *)
(* its message as str.splitlines() gives them (the empty message has none).*)

\* c.commit.message.splitlines()[0] raises IndexError on an empty message.
format_raises(c) == c.message = <<>>

\* f"{c.sha[:7]} {c.commit.message.splitlines()[0]}"
format_commit(c) ==
    SubSeq(c.sha, 1, Min(SHORT_SHA, Len(c.sha))) \o " " \o c.message[1]

commit_list(repo) == [k \in 1..Len(repo.commits) |-> format_commit(repo.commits[k])]

\* Whether the try block of one loop iteration ends in `except: continue`:
\* get_commits (or paging through it) raises, or formatting a commit does.
repo_skipped(repo, outcome) ==
    \/ outcome = "raises"
    \/ \E k \in 1..Len(repo.commits) : format_raises(repo.commits[k])

RECURSIVE all_commits_from(_, _, _)
all_commits_from(repos, outcomes, k) ==
    IF k > Len(repos) THEN <<>>
    ELSE LET rest == all_commits_from(repos, outcomes, k + 1) IN
         IF repo_skipped(repos[k], outcomes[k]) THEN rest
         ELSE IF commit_list(repos[k]) = <<>> THEN rest
         ELSE <<PyTuple(<<repos[k].full_name, PyList(commit_list(repos[k]))>>)>> \o rest

\* get_github_commits(token, date): outcomes[k] is what repo.get_commits
\* does for the k-th repository.
get_github_commits(repos, outcomes) == PyList(all_commits_from(repos, outcomes, 1))

----------------------------------------------------------------------------
(* Texts that are only measured: a kind and a length in characters.        *)

Text(kind, len) == [kind |-> kind, len |-> len]

DIFF_NOT_AVAILABLE_LEN == 20

DiffNotAvailable == Text("placeholder", DIFF_NOT_AVAILABLE_LEN)

\* get_commit_diffs that leaves a failed commit out
get_commit_diffs_drop(commits, outcomes) ==
    LET kept == {k \in 1..Len(commits) : ~outcomes[k].raises}
        nth(n) == CHOOSE k \in kept : Cardinality({j \in kept : j < k}) = n - 1
    IN [n \in 1..Cardinality(kept) |->
           [commit |-> commits[nth(n)], diff |-> Text("diff", outcomes[nth(n)].len)]]

\* get_commit_diffs(repo, commits): outcomes[k] says whether fetching the
\* k-th commit (repo.get_commit, c.files) raises, and else how long the
\* joined filename/patch text is.
get_commit_diffs(commits, outcomes) ==
    [k \in 1..Len(commits) |->
        [commit |-> commits[k],
         diff |-> IF outcomes[k].raises THEN DiffNotAvailable
                  ELSE Text("diff", outcomes[k].len)]]

----------------------------------------------------------------------------
(* Prompts and the token budget *)

PROMPT_HEADER_LEN == 182

PROMPT_PAIR_LEN == 17

PROMPT_CUE_LEN == 9

RECURSIVE pairs_len(_)
pairs_len(pairs) ==
    IF pairs = <<>> THEN 0
    ELSE PROMPT_PAIR_LEN + Len(Head(pairs).commit) + Head(pairs).diff.len
         + pairs_len(Tail(pairs))

\* create_ai_prompt(repo_name, commit_diffs, date)
create_ai_prompt(repo_name, pairs, date) ==
    Text("commit_prompt",
         PROMPT_HEADER_LEN + Len(repo_name) + Len(date) + pairs_len(pairs)
         + PROMPT_CUE_LEN)

\* estimate_token_count(text)
estimate_token_count(text) == text.len \div 4

OVERFLOW_LEN == 59

FAILED_PREFIX_LEN == 21

Overflow == Text("overflow", OVERFLOW_LEN)

Failed(svc) == Text("failed", FAILED_PREFIX_LEN + svc.err)

\* get_ai_summary(prompt) against an inference service in state svc:
\* importing lmstudio or lms.llm() may raise, model.respond may raise, or
\* the model answers with svc.len characters.  responded says whether
\* model.respond was called with the prompt.
get_ai_summary(prompt, svc) ==
    IF svc.llm = "raises" THEN [result |-> Failed(svc), responded |-> FALSE]
    ELSE IF estimate_token_count(prompt) > AI_SUMMARY_LIMIT
         THEN [result |-> Overflow, responded |-> FALSE]
    ELSE IF svc.respond = "raises" THEN [result |-> Failed(svc), responded |-> TRUE]
    ELSE [result |-> Text("response", svc.len), responded |-> TRUE]

BLOCK_ENTRY_LEN == 18

RECURSIVE all_commit_text_len(_)
all_commit_text_len(summaries) ==
    IF summaries = <<>> THEN 0
    ELSE BLOCK_ENTRY_LEN + Len(Head(summaries).commit) + Head(summaries).summary.len
         + (IF Tail(summaries) = <<>> THEN 0 ELSE 1 + all_commit_text_len(Tail(summaries)))

\* "\n".join([f"Commit: {c}\nSummary: {s}" for c, s in per_commit_summaries])
all_commit_text(summaries) == Text("block", all_commit_text_len(summaries))

FINAL_PROMPT_LEN == 119

final_prompt(repo_name, date, block) ==
    Text("final_prompt", FINAL_PROMPT_LEN + Len(repo_name) + Len(date) + block.len)

\* the roll-up gate with < weakened to <=
roll_up_allowed_le(block) == estimate_token_count(block) <= AI_SUMMARY_LIMIT

\* estimate_token_count(all_commit_text) < AI_SUMMARY_LIMIT
roll_up_allowed(block) == estimate_token_count(block) < AI_SUMMARY_LIMIT

NoText == [kind |-> "none", len |-> 0]

NoSvc == [llm |-> "none", respond |-> "none", len |-> 0, err |-> 0]

NoAiCall == [purpose |-> "none", repo |-> 0, commit |-> 0, prompt |-> NoText,
             svc |-> NoSvc, result |-> NoText, responded |-> FALSE]

RunIdle ==
    /\ pc = "idle"
    /\ args = [date |-> "", github_token |-> FALSE, ai_summary |-> FALSE]
    /\ hub = <<>>
    /\ gh_commits = None
    /\ fetched = <<>>
    /\ ri = 0
    /\ ci = 0
    /\ commit_diffs = <<>>
    /\ diff_outcomes = <<>>
    /\ repo_ok = FALSE
    /\ per_commit_summaries = <<>>
    /\ out = <<>>
    /\ ai_call = NoAiCall

NoWriters == <<>>

----------------------------------------------------------------------------
(* One run of main *)

Commit1 == [sha |-> "abc1234fe01d2c3b4a5968778695a4b3c2d1e0f9", message |-> <<"Fix bug">>]

Commit2 == [sha |-> "def56789a0b1c2d3e4f5061728394a5b6c7d8e9f",
            message |-> <<"Add feature", "", "Adds the feature.">>]

CommitE == [sha |-> "0a1b2c3d4e5f60718293a4b5c6d7e8f901234567", message |-> <<>>]

CommitLists == {<<>>, <<Commit1>>, <<Commit1, Commit2>>, <<Commit2, CommitE>>}

Hubs ==
    {<<[full_name |-> "u/alpha", commits |-> a], [full_name |-> "u/beta", commits |-> b]>> :
        a \in CommitLists, b \in CommitLists}

RunDate == "2024-05-01"

\* A cache file an earlier run left for the same day.
CachedFile ==
    [st |-> "object",
     data |-> [d \in {cache_key(RunDate)} |-> Entry(0, json_dump(PyList(<<GroupB, GroupA>>)))]]

RunFiles == {Absent, Malformed, NonDict, CachedFile}

\* The states of the inference service at one call.
Services ==
    {[llm |-> "raises", respond |-> "none", len |-> 0, err |-> 30],
     [llm |-> "ok", respond |-> "raises", len |-> 0, err |-> 30]}
    \cup {[llm |-> "ok", respond |-> "ok", len |-> n, err |-> 0] : n \in {20, 47966, 47967}}

\* What fetching one commit's files can do.
DiffOutcomes ==
    {[raises |-> TRUE, len |-> 0]}
    \cup {[raises |-> FALSE, len |-> n] : n \in {40, 47763, 47764}}

Ev(ev, repo, commit) == [ev |-> ev, repo |-> repo, commit |-> commit]

\* print(...) while the order of the output is lost
emit_front(o, e) == <<e>> \o o

\* print(...): the text goes to the output at once, after what is there.
emit(o, e) == Append(o, e)

RECURSIVE print_commits(_, _)
print_commits(repo, commits) ==
    IF commits = <<>> THEN <<>>
    ELSE <<Ev("summary_commit", repo, Head(commits))>> \o print_commits(repo, Tail(commits))

RECURSIVE print_groups(_)
print_groups(groups) ==
    IF groups = <<>> THEN <<>>
    ELSE <<Ev("summary_repo", Head(groups).name, "")>>
         \o print_commits(Head(groups).name, Head(groups).commits)
         \o print_groups(Tail(groups))

\* print_summary(all_commits, date): what it prints
print_summary(all_commits) ==
    <<Ev("summary_header", "", "")>> \o print_groups(GroupsOf(all_commits))

RunInit ==
    /\ file \in RunFiles
    /\ now = 0
    /\ ticks = 0
    /\ ret = NoCall
    /\ saved = [d \in Dates |-> NeverSaved]
    /\ pc = "start"
    /\ args \in [date : {RunDate}, github_token : BOOLEAN, ai_summary : BOOLEAN]
    /\ hub \in Hubs
    /\ gh_commits = None
    /\ fetched = <<>>
    /\ ri = 0
    /\ ci = 0
    /\ commit_diffs = <<>>
    /\ diff_outcomes = <<>>
    /\ repo_ok = FALSE
    /\ per_commit_summaries = <<>>
    /\ out = <<>>
    /\ ai_call = NoAiCall
    /\ w = NoWriters

\* main, lines 106-108: no token
Main_NoToken ==
    /\ pc = "start"
    /\ ~args.github_token
    /\ out' = emit(out, Ev("token_required", "", ""))
    /\ pc' = "done"
    /\ UNCHANGED <<cacheVars, args, hub, gh_commits, fetched, ri, ci, commit_diffs,
                   diff_outcomes, repo_ok, per_commit_summaries, ai_call, w>>

\* main, lines 109-111: the cache is read
Main_Load ==
    /\ pc = "start"
    /\ args.github_token
    /\ out' = emit(out, Ev("aggregating", "", ""))
    /\ gh_commits' = load_cache(file, args.date, now)
    /\ pc' = IF gh_commits' = None THEN "collect" ELSE "print"
    /\ UNCHANGED <<cacheVars, args, hub, fetched, ri, ci, commit_diffs,
                   diff_outcomes, repo_ok, per_commit_summaries, ai_call, w>>

\* main, line 112: get_github_commits
Main_Collect ==
    /\ pc = "collect"
    /\ \E outcomes \in [1..Len(hub) -> {"raises", "ok"}] :
        /\ fetched' = outcomes
        /\ gh_commits' = get_github_commits(hub, outcomes)
    /\ pc' = "save"
    /\ UNCHANGED <<cacheVars, args, hub, ri, ci, commit_diffs, diff_outcomes,
                   repo_ok, per_commit_summaries, out, ai_call, w>>

\* main, line 113: save_cache; an exception it raises ends the run
Main_Save ==
    /\ pc = "save"
    /\ file' = save_cache(file, args.date, now, gh_commits)
    /\ pc' = IF save_cache_raises(file) THEN "aborted" ELSE "print"
    /\ UNCHANGED <<now, ticks, ret, saved, args, hub, gh_commits, fetched, ri, ci,
                   commit_diffs, diff_outcomes, repo_ok, per_commit_summaries, out,
                   ai_call, w>>

\* main, lines 114-120: print_summary, and the AI phase begins
Main_Print ==
    /\ pc = "print"
    /\ out' = IF args.ai_summary
              THEN emit(out \o print_summary(gh_commits), Ev("ai_header", "", ""))
              ELSE out \o print_summary(gh_commits)
    /\ ri' = 1
    /\ pc' = IF args.ai_summary /\ Len(gh_commits.items) > 0 THEN "get_repo" ELSE "done"
    /\ UNCHANGED <<cacheVars, args, hub, gh_commits, fetched, ci, commit_diffs,
                   diff_outcomes, repo_ok, per_commit_summaries, ai_call, w>>

Group(i) == Unpack(gh_commits.items[i])

\* main, line 121: g.get_repo(repo_name); an exception it raises ends the run
Main_GetRepo ==
    /\ pc = "get_repo"
    /\ \E ok \in BOOLEAN :
        /\ repo_ok' = ok
        /\ pc' = IF ok THEN "diffs" ELSE "aborted"
    /\ UNCHANGED <<cacheVars, args, hub, gh_commits, fetched, ri, ci, commit_diffs,
                   diff_outcomes, per_commit_summaries, out, ai_call, w>>

\* main, lines 122-123: get_commit_diffs
Main_GetDiffs ==
    /\ pc = "diffs"
    /\ \E outcomes \in [1..Len(Group(ri).commits) -> DiffOutcomes] :
        /\ diff_outcomes' = outcomes
        /\ commit_diffs' = get_commit_diffs(Group(ri).commits, outcomes)
    /\ per_commit_summaries' = <<>>
    /\ ci' = 1
    /\ pc' = IF commit_diffs' = <<>> THEN "rollup" ELSE "commit"
    /\ UNCHANGED <<cacheVars, args, hub, gh_commits, fetched, ri, repo_ok, out,
                   ai_call, w>>

\* main, lines 124-128: one commit is summarized and printed
Main_Commit ==
    /\ pc = "commit"
    /\ \E svc \in Services :
        LET pair == commit_diffs[ci]
            prompt == create_ai_prompt(Group(ri).name, <<pair>>, args.date)
            r == get_ai_summary(prompt, svc)
        IN /\ ai_call' = [purpose |-> "commit", repo |-> ri, commit |-> ci,
                          prompt |-> prompt, svc |-> svc, result |-> r.result,
                          responded |-> r.responded]
           /\ per_commit_summaries' =
                  Append(per_commit_summaries, [commit |-> pair.commit, summary |-> r.result])
           /\ out' = emit(out, Ev("commit_summary", Group(ri).name, pair.commit))
    /\ ci' = ci + 1
    /\ pc' = IF ci = Len(commit_diffs) THEN "rollup" ELSE "commit"
    /\ UNCHANGED <<cacheVars, args, hub, gh_commits, fetched, ri, commit_diffs,
                   diff_outcomes, repo_ok, w>>

AfterRollUp ==
    /\ ri' = ri + 1
    /\ pc' = IF ri = Len(gh_commits.items) THEN "done" ELSE "get_repo"
    /\ UNCHANGED <<cacheVars, args, hub, gh_commits, fetched, ci, commit_diffs,
                   diff_outcomes, repo_ok, per_commit_summaries, w>>

\* main, lines 130-134: the roll-up is summarized and printed
Main_RollUp ==
    /\ pc = "rollup"
    /\ roll_up_allowed(all_commit_text(per_commit_summaries))
    /\ \E svc \in Services :
        LET prompt == final_prompt(Group(ri).name, args.date,
                                   all_commit_text(per_commit_summaries))
            r == get_ai_summary(prompt, svc)
        IN ai_call' = [purpose |-> "final", repo |-> ri, commit |-> 0,
                       prompt |-> prompt, svc |-> svc, result |-> r.result,
                       responded |-> r.responded]
    /\ out' = emit(out, Ev("final_summary", Group(ri).name, ""))
    /\ AfterRollUp

\* main, lines 135-136: the roll-up is skipped
Main_RollUpSkipped ==
    /\ pc = "rollup"
    /\ ~roll_up_allowed(all_commit_text(per_commit_summaries))
    /\ out' = emit(out, Ev("final_skipped", Group(ri).name, ""))
    /\ UNCHANGED ai_call
    /\ AfterRollUp

Next ==
    \/ Main_NoToken
    \/ Main_Load
    \/ Main_Collect
    \/ Main_Save
    \/ Main_Print
    \/ Main_GetRepo
    \/ Main_GetDiffs
    \/ Main_Commit
    \/ Main_RollUp
    \/ Main_RollUpSkipped

Spec == RunInit /\ [][Next]_vars

----------------------------------------------------------------------------
(* Properties of one run of main (specification Spec) *)

Collected == pc \in {"save", "print", "get_repo", "diffs", "commit", "rollup", "done", "aborted"}
             /\ fetched # <<>>

GroupNames == {Group(i).name : i \in 1..Len(gh_commits.items)}

GroupNamed(name) == CHOOSE g \in {Group(i) : i \in 1..Len(gh_commits.items)} : g.name = name

\* C3: whenever get_ai_summary is called with a prompt whose estimated token
\* count exceeds 12000 it returns the overflow sentinel and model.respond is
\* not called, whatever the state of the inference service.
C3_OverflowSentinelWhateverService ==
    (ai_call.purpose # "none" /\ estimate_token_count(ai_call.prompt) > AI_SUMMARY_LIMIT)
        => (ai_call.result = Overflow /\ ~ai_call.responded)

\* The roll-up step of repository ri - 1 has just been taken.
JustRolledUp == pc \in {"get_repo", "done", "aborted"} /\ ri >= 2

RollUpEvents(name) ==
    {n \in 1..Len(out) : out[n].ev \in {"final_summary", "final_skipped"} /\ out[n].repo = name}

\* C4: after the roll-up step of a repository, if the block of per-commit
\* summaries is estimated at 12000 tokens or more the skip notice was printed
\* and get_ai_summary was not called for the roll-up; if it is estimated below
\* 12000 the final prompt over that block was built, passed to get_ai_summary
\* and its result printed.  Every repository whose roll-up step was taken has
\* exactly one of the two printed, every other repository none.
C4_RollUpGate ==
    /\ JustRolledUp =>
        LET block == all_commit_text(per_commit_summaries)
            name == Group(ri - 1).name
            last == out[Len(out)]
            called == ai_call.purpose = "final" /\ ai_call.repo = ri - 1
        IN /\ last.repo = name
           /\ estimate_token_count(block) >= AI_SUMMARY_LIMIT
                => (last.ev = "final_skipped" /\ ~called)
           /\ estimate_token_count(block) < AI_SUMMARY_LIMIT
                => /\ last.ev = "final_summary"
                   /\ called
                   /\ ai_call.prompt = final_prompt(name, args.date, block)
    /\ gh_commits # None =>
        \A i \in 1..Len(gh_commits.items) :
            Cardinality(RollUpEvents(Group(i).name)) =
                IF args.ai_summary /\ pc \in {"get_repo", "diffs", "commit", "rollup", "done", "aborted"}
                   /\ i < ri
                THEN 1 ELSE 0

\* C4 witness: a block estimated at exactly 12000 tokens was skipped.
C4_Witness ==
    /\ JustRolledUp
    /\ estimate_token_count(all_commit_text(per_commit_summaries)) = AI_SUMMARY_LIMIT
    /\ out[Len(out)].ev = "final_skipped"

\* C5: after get_github_commits, a repository whose commit fetch raised has no
\* group, a repository whose fetch succeeded with at least one matching commit
\* has its group, and a repository with no matching commit has none.
C5_CollectToleratesFailure ==
    Collected =>
        \A k \in 1..Len(hub) :
            /\ fetched[k] = "raises" => hub[k].full_name \notin GroupNames
            /\ (fetched[k] = "ok" /\ Len(hub[k].commits) >= 1)
                 => hub[k].full_name \in GroupNames
            /\ (fetched[k] = "ok" /\ Len(hub[k].commits) = 0)
                 => hub[k].full_name \notin GroupNames

\* C6: a run never ends on an exception of a hosting call: after a failed
\* g.get_repo the run goes on (it is never aborted in the AI phase).
C6_NoRecoverableErrorIsFatal == ~(pc = "aborted" /\ ri >= 1 /\ ~repo_ok)

\* C7: get_commit_diffs returns one record per input commit, in input order,
\* with the literal placeholder for a commit whose fetch failed and the
\* fetched text for every other one, also after a failure; main builds the
\* prompt of every commit from its record, summarizes it and goes on, so that
\* at the roll-up every commit, failed or not, has its summary in order.
C7_FetchDiffsNeverAborts ==
    pc \in {"commit", "rollup"} =>
        LET commits == Group(ri).commits IN
        /\ Len(commit_diffs) = Len(commits)
        /\ \A k \in 1..Len(commits) :
            /\ commit_diffs[k].commit = commits[k]
            /\ commit_diffs[k].diff =
                 IF diff_outcomes[k].raises THEN Text("placeholder", DIFF_NOT_AVAILABLE_LEN)
                 ELSE Text("diff", diff_outcomes[k].len)
        /\ Len(per_commit_summaries) = (IF pc = "rollup" THEN Len(commits) ELSE ci - 1)
        /\ \A k \in 1..Len(per_commit_summaries) :
            per_commit_summaries[k].commit = commits[k]
        /\ (ai_call.purpose = "commit" /\ ai_call.repo = ri) =>
            /\ ai_call.commit = Len(per_commit_summaries)
            /\ ai_call.prompt =
                 create_ai_prompt(Group(ri).name, <<commit_diffs[ai_call.commit]>>, args.date)
            /\ per_commit_summaries[ai_call.commit].summary = ai_call.result

\* C7 witness: the first of two commits failed to fetch, the second was
\* fetched, and both have been summarized.
C7_Witness ==
    /\ pc = "rollup"
    /\ Len(commit_diffs) = 2
    /\ diff_outcomes[1].raises
    /\ ~diff_outcomes[2].raises
    /\ commit_diffs[2].diff.kind = "diff"
    /\ Len(per_commit_summaries) = 2

AiHeaderAt == {n \in 1..Len(out) : out[n].ev = "ai_header"}

\* What was printed after the "AI Summaries:" line.
AiOut ==
    IF AiHeaderAt = {} THEN <<>>
    ELSE SubSeq(out, (CHOOSE n \in AiHeaderAt : TRUE) + 1, Len(out))

RECURSIVE ExpectedCommits(_, _)
ExpectedCommits(name, commits) ==
    IF commits = <<>> THEN <<>>
    ELSE <<Ev("commit_summary", name, Head(commits))>> \o ExpectedCommits(name, Tail(commits))

\* The output of the AI phase up to repository i, commit j (j = -1: with
\* the roll-up of repository i), the roll-up's two forms written alike.
RECURSIVE ExpectedUpTo(_, _)
ExpectedUpTo(i, j) ==
    IF i = 0 THEN <<>>
    ELSE ExpectedUpTo(i - 1, -1)
         \o (IF j = -1
             THEN ExpectedCommits(Group(i).name, Group(i).commits)
                  \o <<Ev("rollup", Group(i).name, "")>>
             ELSE ExpectedCommits(Group(i).name, SubSeq(Group(i).commits, 1, j)))

AsRollUp(e) == IF e.ev \in {"final_summary", "final_skipped"} THEN [e EXCEPT !.ev = "rollup"] ELSE e

\* C8: at every point of the AI phase the output is exactly: for each
\* repository already done, its per-commit summaries in the order of its
\* group and then its roll-up or skip notice; then, when commit ci of the
\* current repository is about to be summarized, the summaries of its
\* commits 1 .. ci - 1 in order, and at its roll-up those of all its commits.
\* So a summary is printed before the next commit is summarized, and a roll-up
\* after its repository's summaries and before the next repository's output.
C8_OutputOrder ==
    (args.ai_summary /\ pc \in {"get_repo", "diffs", "commit", "rollup", "done", "aborted"}
     /\ gh_commits # None /\ ri >= 1) =>
        [n \in 1..Len(AiOut) |-> AsRollUp(AiOut[n])] =
            IF pc = "commit" THEN ExpectedUpTo(ri, ci - 1)
            ELSE IF pc = "rollup" THEN ExpectedUpTo(ri, Len(Group(ri).commits))
            ELSE ExpectedUpTo(ri - 1, -1)

\* C8 witness: a finished run that summarized two repositories, one of them
\* with two commits.
C8_Witness ==
    /\ pc = "done"
    /\ args.ai_summary
    /\ ri = 3
    /\ Len(AiOut) >= 5
    /\ AiOut[Len(AiOut)].repo = Group(2).name

\* C9: a repository whose fetch succeeds and that has a commit with an empty
\* message keeps its group, with one formatted string per commit, the one of
\* the empty message being its 7-character short hash (and the separator).
C9_EmptyMessageFormatted ==
    Collected =>
        \A k \in 1..Len(hub) :
            (fetched[k] = "ok" /\ \E n \in 1..Len(hub[k].commits) : hub[k].commits[n].message = <<>>)
              => /\ hub[k].full_name \in GroupNames
                 /\ Len(GroupNamed(hub[k].full_name).commits) = Len(hub[k].commits)
                 /\ \A n \in 1..Len(hub[k].commits) :
                      hub[k].commits[n].message = <<>> =>
                        GroupNamed(hub[k].full_name).commits[n]
                            \in {SubSeq(hub[k].commits[n].sha, 1, SHORT_SHA),
                                 SubSeq(hub[k].commits[n].sha, 1, SHORT_SHA) \o " "}

CacheInit ==
    /\ file \in InitFiles
    /\ now = 0
    /\ ticks = 0
    /\ ret = NoCall
    /\ saved = [d \in Dates |-> NeverSaved]
    /\ RunIdle
    /\ w = NoWriters

\* A call of save_cache(date, commits).
CacheSave ==
    \E d \in Dates, X \in Payloads :
        /\ file' = save_cache(file, d, now, X)
        /\ ret' = [op |-> "save", date |-> d, val |-> None,
                   raised |-> save_cache_raises(file), at |-> now]
        /\ saved' = IF save_cache_raises(file) THEN saved
                    ELSE [saved EXCEPT ![d] = [done |-> TRUE, at |-> now, commits |-> X]]
        /\ UNCHANGED <<now, ticks, runVars, w>>

\* A call of load_cache(date).
CacheLoad ==
    \E d \in Dates :
        /\ ret' = [op |-> "load", date |-> d, val |-> load_cache(file, d, now),
                   raised |-> FALSE, at |-> now]
        /\ UNCHANGED <<file, now, ticks, saved, runVars, w>>

TickSteps == {1, CACHE_TTL - 1}

\* Time passes between two calls.
Tick ==
    \E dt \in TickSteps :
        /\ ticks < MaxTicks
        /\ now' = now + dt
        /\ ticks' = ticks + 1
        /\ ret' = NoCall
        /\ UNCHANGED <<file, saved, runVars, w>>

CacheNext == CacheSave \/ CacheLoad \/ Tick

SpecCache == CacheInit /\ [][CacheNext]_vars

----------------------------------------------------------------------------
(* Properties of the cache (specification SpecCache).  ret is the last     *)
(* call: when ret.op = "load", no save_cache has run since that load_cache *)
(* and no time has passed, so saved[ret.date] is the most recent save to   *)
(* the date that was loaded.                                               *)

\* C1: a load_cache(d) after a completed save_cache(d, X), fewer than 900
\* seconds later and with no later save to d, returns a list holding the
\* repositories and commits of X in X's order; for the X of no repositories
\* it returns the empty list, not None.
C1_CacheRoundTrip ==
    (/\ ret.op = "load"
     /\ saved[ret.date].done
     /\ now - saved[ret.date].at < CACHE_TTL)
        => /\ ret.val # None
           /\ ret.val.py = "list"
           /\ GroupsOf(ret.val) = GroupsOf(saved[ret.date].commits)
           /\ (saved[ret.date].commits.items = <<>> => ret.val = PyList(<<>>))

\* C1 witness: the payload of no repositories was saved, time passed, a
\* save to the other date came between, and the load returned the empty list.
C1_Witness ==
    /\ ret.op = "load"
    /\ saved[ret.date].done
    /\ saved[ret.date].commits = PyList(<<>>)
    /\ now - saved[ret.date].at = CACHE_TTL - 1
    /\ \E d \in Dates \ {ret.date} : saved[d].done /\ saved[d].at > saved[ret.date].at
    /\ ret.val = PyList(<<>>)

\* C2: load_cache(d) returns something other than None only when the file
\* holds an entry for d with now - timestamp < 900, and then it returns that
\* entry's whole payload; once more than 900 seconds have passed since the
\* most recent save_cache(d) it returns None.
C2_CacheExpiry ==
    ret.op = "load" =>
        /\ ret.val # None =>
            /\ file.st = "object"
            /\ cache_key(ret.date) \in DOMAIN file.data
            /\ file.data[cache_key(ret.date)].shape = "entry"
            /\ now - file.data[cache_key(ret.date)].timestamp < CACHE_TTL
            /\ Len(ret.val.items) = Len(file.data[cache_key(ret.date)].commits.items)
            /\ saved[ret.date].done =>
                 GroupsOf(ret.val) = GroupsOf(saved[ret.date].commits)
        /\ (saved[ret.date].done /\ now - saved[ret.date].at > CACHE_TTL)
             => ret.val = None

\* C2 witness: a load 901 seconds after the save of a payload with
\* repositories returned None.
C2_Witness ==
    /\ ret.op = "load"
    /\ saved[ret.date].done
    /\ saved[ret.date].commits.items # <<>>
    /\ now - saved[ret.date].at = CACHE_TTL + 1
    /\ ret.val = None

----------------------------------------------------------------------------
(* Two invocations inside save_cache at the same time.  Nothing locks the  *)
(* file: each reads the whole file (lines 87-93), opens it for writing,    *)
(* which truncates it (line 94), and on leaving the with block writes its  *)
(* JSON text from offset 0 (line 95).  The texts here fit the I/O buffer   *)
(* and reach the file in one write.                                        *)

TIMESTAMP_LEN == 18

ENTRY_FRAME_LEN == 28

RECURSIVE strings_len(_)
strings_len(ss) ==
    IF ss = <<>> THEN 0
    ELSE Len(Head(ss)) + 2 + (IF Tail(ss) = <<>> THEN 0 ELSE 2 + strings_len(Tail(ss)))

RECURSIVE groups_len(_)
groups_len(gs) ==
    IF gs = <<>> THEN 0
    ELSE (2 + Len(Head(gs).items[1]) + 2 + 2 + 2 + strings_len(Head(gs).items[2].items))
         + (IF Tail(gs) = <<>> THEN 0 ELSE 2 + groups_len(Tail(gs)))

entry_len(e) == ENTRY_FRAME_LEN + TIMESTAMP_LEN + 2 + groups_len(e.commits.items)

RECURSIVE entries_len(_, _)
entries_len(data, keys) ==
    IF keys = {} THEN 0
    ELSE LET d == CHOOSE x \in keys : TRUE IN
         Len(d) + 2 + 2 + entry_len(data[d])
         + (IF keys = {d} THEN 0 ELSE 2 + entries_len(data, keys \ {d}))

\* len(json.dumps(data)) for a mapping of entries
json_text_len(data) == 2 + entries_len(data, DOMAIN data)

FileLen(f) == IF f.st = "object" THEN json_text_len(f.data) ELSE 0

\* open(CACHE_FILE, "w"): the file is there and empty, which is not JSON.
Truncated == [st |-> "malformed", data |-> NoData]

\* The file, flen characters long, after a text is written from offset 0:
\* a text shorter than the file leaves the rest of the file after it.
write_file(f, flen, data) ==
    IF json_text_len(data) >= flen
    THEN [file |-> [st |-> "object", data |-> data], flen |-> json_text_len(data)]
    ELSE [file |-> Malformed, flen |-> flen]

Procs == {1, 2}

Other(p) == 3 - p

ProcDate(p) == IF p = 1 THEN "2024-05-01" ELSE "2024-05-02"

ConcFiles ==
    {Absent,
     [st |-> "object", data |-> [d \in {"2024-05-02"} |-> Entry(0, json_dump(PyList(<<GroupB>>)))]]}

ConcInit ==
    /\ file \in ConcFiles
    /\ now = 0
    /\ ticks = 0
    /\ ret = NoCall
    /\ saved = [d \in Dates |-> NeverSaved]
    /\ RunIdle
    /\ \E c1 \in Payloads, c2 \in Payloads :
        w = [proc |-> [p \in Procs |->
                         [pc |-> "start", date |-> ProcDate(p),
                          commits |-> IF p = 1 THEN c1 ELSE c2, data |-> NoData]],
             init |-> file, flen |-> FileLen(file), last |-> 0]

\* save_cache, lines 85-93: the file is read and the entry set in memory
Save_Read(p) ==
    /\ w.proc[p].pc = "start"
    /\ w' = [w EXCEPT !.proc[p].pc = "ready",
                      !.proc[p].data = save_cache_data(save_cache_read(file).data,
                                                       w.proc[p].date, now, w.proc[p].commits)]
    /\ UNCHANGED <<cacheVars, runVars>>

\* save_cache, line 94: open(CACHE_FILE, "w")
Save_Open(p) ==
    /\ w.proc[p].pc = "ready"
    /\ file' = Truncated
    /\ w' = [w EXCEPT !.proc[p].pc = "open", !.flen = 0]
    /\ UNCHANGED <<now, ticks, ret, saved, runVars>>

\* save_cache, line 95 and the end of the with block: the text is written
Save_Flush(p) ==
    /\ w.proc[p].pc = "open"
    /\ file' = write_file(file, w.flen, w.proc[p].data).file
    /\ w' = [w EXCEPT !.proc[p].pc = "done",
                      !.flen = write_file(file, w.flen, w.proc[p].data).flen,
                      !.last = p]
    /\ UNCHANGED <<now, ticks, ret, saved, runVars>>

ConcNext == \E p \in Procs : Save_Read(p) \/ Save_Open(p) \/ Save_Flush(p)

SpecConc == ConcInit /\ [][ConcNext]_vars

AllDone == w # NoWriters /\ \A p \in Procs : w.proc[p].pc = "done"

EntryOf(p) == Entry(now, json_dump(w.proc[p].commits))

\* C10 as stated: when both invocations are done, the file holds the entry
\* of the invocation that wrote last.
C10_LastWriteWins ==
    AllDone =>
        /\ file.st = "object"
        /\ cache_key(w.proc[w.last].date) \in DOMAIN file.data
        /\ file.data[cache_key(w.proc[w.last].date)] = EntryOf(w.last)

\* C10 amended: when both invocations are done, either the file is the
\* mapping of the invocation that wrote last, which holds that invocation's
\* entry and otherwise only entries of the file at the start or the other
\* invocation's entry; or the last text written was shorter than the other
\* one, written since the last truncation, and the file is that text followed
\* by the rest of the other: not JSON, as long as the other text.
C10_LastWriteWinsOrTorn ==
    AllDone =>
        LET l == w.last
            o == Other(w.last)
        IN \/ /\ file.st = "object"
              /\ cache_key(w.proc[l].date) \in DOMAIN file.data
              /\ file.data[cache_key(w.proc[l].date)] = EntryOf(l)
              /\ \A d \in DOMAIN file.data \ {cache_key(w.proc[l].date)} :
                    \/ d = cache_key(w.proc[o].date) /\ file.data[d] = EntryOf(o)
                    \/ d \in DOMAIN w.init.data /\ file.data[d] = w.init.data[d]
           \/ /\ file.st = "malformed"
              /\ json_text_len(w.proc[l].data) < json_text_len(w.proc[o].data)
              /\ w.flen = json_text_len(w.proc[o].data)
              /\ cache_key(w.proc[l].date) \in DOMAIN w.proc[l].data
              /\ w.proc[l].data[cache_key(w.proc[l].date)] = EntryOf(l)

\* C10 witness: both invocations are done, the file is the last writer's
\* mapping and the other invocation's entry is not in it.
C10_Witness ==
    /\ AllDone
    /\ file.st = "object"
    /\ file.data[cache_key(w.proc[w.last].date)] = EntryOf(w.last)
    /\ cache_key(w.proc[Other(w.last)].date) \notin DOMAIN file.data

====
